---- MODULE Spec2Model ----
(***************************************************************************)
(* A model of src/game_objects/item.py: the Item entity, the two static   *)
(* metadata tables (Item.items_info, Item.custom_items_info), the ItemInfo *)
(* accessor, the flag-string serialization and from_valid_json.            *)
(*                                                                         *)
(* Python strings on which the code indexes, slices, concatenates or       *)
(* tests membership (item ids, flag strings, stat values, descriptions)    *)
(* are sequences of one-character strings.  Field names and floor ids,     *)
(* which are only compared, are TLA+ strings.                              *)
(***************************************************************************)
EXTENDS Integers, Sequences, FiniteSets, TLC

VARIABLES items_info, custom_items_info, item, hist, error_log, ret

vars == <<items_info, custom_items_info, item, hist, error_log, ret>>

----------------------------------------------------------------------------
(* Python values *)

None == [t |-> "none"]

Str(s) == [t |-> "str", s |-> s]

Bool(b) == [t |-> "bool", b |-> b]

\* A value that is neither None, a string nor a boolean: an attribute of the
\* ItemInfo type itself (a class-level list, a bound dict method, the class).
TypeValue(name) == [t |-> "typeattr", of |-> name]

\* Python truth value (`if x:` / `not x`).
Truthy(v) ==
    CASE v.t = "none" -> FALSE
      [] v.t = "str"  -> v.s # <<>>
      [] v.t = "bool" -> v.b
      [] OTHER        -> TRUE

\* The outcome of a call: a returned value or a raised exception.
Ok(v) == [kind |-> "ok", val |-> v]

Raise(e) == [kind |-> "raise", exc |-> e]

\* `c in s` for a one-character string c.
InStr(c, s) == \E i \in 1..Len(s) : s[i] = c

\* s.endswith(suffix)
EndsWith(s, suffix) ==
    /\ Len(s) >= Len(suffix)
    /\ SubSeq(s, Len(s) - Len(suffix) + 1, Len(s)) = suffix

----------------------------------------------------------------------------
(* Class-level constants of Item *)

modded_item_id_prefix == "m"

serialization_flags == [blind |-> "b", was_rerolled |-> "r", starting_item |-> "s"]

\* The sentinel id "NEW" substituted by from_valid_json.
SentinelId == <<"N", "E", "W">>

----------------------------------------------------------------------------
(* ItemInfo(dict): a copy of the metadata record with attribute access *)

\* Attributes of the type that are data descriptors: found before the instance
\* dictionary by Python's attribute lookup.
TypeDataDescriptors == {"__class__", "__dict__"}

\* Other names defined on ItemInfo or inherited from dict: the two class-level
\* lists and the dict methods.
TypeAttributes == {"transform_list", "stat_list", "keys", "get", "items"}

\* ItemInfo.__init__: dict.__init__(values) copies the record; __dict__ = self.
ItemInfo(values) == values

\* A variant of __getattr__ that reports the missing attribute instead.
InfoGetattrHookFailing(info, name) == [t |-> "AttributeError", of |-> name]

\* ItemInfo.__getattr__: only called when normal lookup finds nothing.
InfoGetattrHook(info, name) == None

\* ItemInfo.__missing__: called by info[name] for an absent key.
InfoMissing(info, name) == InfoGetattrHook(info, name)

\* info[name]
InfoGetItem(info, name) ==
    IF name \in DOMAIN info THEN info[name] ELSE InfoMissing(info, name)

\* info.name / getattr(info, name): type data descriptors, then the instance
\* dictionary (which is the record itself), then the other type attributes,
\* then __getattr__.
InfoGetAttribute(info, name) ==
    IF name \in TypeDataDescriptors THEN TypeValue(name)
    ELSE IF name \in DOMAIN info THEN info[name]
    ELSE IF name \in TypeAttributes THEN TypeValue(name)
    ELSE InfoGetattrHook(info, name)

----------------------------------------------------------------------------
(* The metadata store: static lookups *)

\* Item.get_item_info
get_item_info(builtins, custom, item_id) ==
    IF item_id = <<>> THEN Raise("IndexError")
    ELSE IF Head(item_id) = modded_item_id_prefix
         THEN IF Tail(item_id) \in DOMAIN custom
              THEN Ok(ItemInfo(custom[Tail(item_id)]))
              ELSE Raise("KeyError")
         ELSE IF item_id \in DOMAIN builtins
              THEN Ok(ItemInfo(builtins[item_id]))
              ELSE Raise("KeyError")

\* Item.contains_info
contains_info(builtins, custom, item_id) ==
    IF item_id = <<>> THEN Raise("IndexError")
    ELSE IF Head(item_id) = modded_item_id_prefix
         THEN Ok(Tail(item_id) \in DOMAIN custom)
         ELSE Ok(item_id \in DOMAIN builtins)

\* A variant of determine_custom_item_names that names every record after its key.
determine_custom_item_names_overwriting(custom) ==
    [k \in DOMAIN custom |->
        ("name" :> Str(k)) @@ custom[k]]

\* Item.determine_custom_item_names: the custom table after the pass.
determine_custom_item_names(custom) ==
    [k \in DOMAIN custom |->
        IF "name" \notin DOMAIN custom[k]
        THEN custom[k] @@ ("name" :> Str(k))
        ELSE custom[k]]

----------------------------------------------------------------------------
(* Item *)

\* Item.__init__: flagstr is None or Str(s).
ItemInit(builtins, custom, item_id, floor, starting_item, was_rerolled, blind, flagstr) ==
    LET decoded == [varname \in DOMAIN serialization_flags |->
                       InStr(serialization_flags[varname], flagstr.s)]
        info == get_item_info(builtins, custom, item_id)
    IN  IF info.kind = "raise" THEN info
        ELSE Ok([t             |-> "Item",
                 item_id       |-> item_id,
                 floor         |-> floor,
                 starting_item |-> IF flagstr # None THEN decoded.starting_item
                                   ELSE starting_item,
                 blind         |-> IF flagstr # None THEN decoded.blind ELSE blind,
                 was_rerolled  |-> IF flagstr # None THEN decoded.was_rerolled
                                   ELSE was_rerolled,
                 info          |-> info.val])

\* A variant of rerolled that ignores the space marker.
rerolled_ignoring_space(self) == [self EXCEPT !.was_rerolled = TRUE]

\* A variant of rerolled that clears the flag of a spacebar item.
rerolled_clearing_space(self) ==
    [self EXCEPT !.was_rerolled = ~Truthy(InfoGetAttribute(self.info, "space"))]

\* Item.rerolled: the object after the call.
rerolled(self) ==
    IF ~Truthy(InfoGetAttribute(self.info, "space"))
    THEN [self EXCEPT !.was_rerolled = TRUE]
    ELSE self

\* A variant of FlagChars that never emits the character of starting_item.
FlagCharsWithoutStartingItem(self) ==
    {serialization_flags[varname] :
        varname \in {v \in DOMAIN serialization_flags \ {"starting_item"} : self[v]}}

\* The characters Item.flags emits, as a set: the order of emission is the
\* iteration order of the serialization_flags dict.
FlagChars(self) ==
    {serialization_flags[varname] : varname \in {v \in DOMAIN serialization_flags : self[v]}}

\* Every string Item.flags may return: the emitted characters in any order.
flags(self) ==
    {s \in [1..Cardinality(FlagChars(self)) -> FlagChars(self)] :
        \A i, j \in DOMAIN s : i # j => s[i] # s[j]}

\* The first floor of floor_list whose floor_id is the given one, or None:
\* next((f for f in floor_list if f.floor_id == ...), None)
FirstFloor(floor_list, floor_id) ==
    LET hits == {i \in 1..Len(floor_list) : floor_list[i].floor_id = floor_id}
    IN  IF hits = {} THEN None
        ELSE floor_list[CHOOSE i \in hits : \A j \in hits : i <= j]

\* A variant of from_valid_json that logs the missing floor and goes on.
from_valid_json_not_returning(builtins, custom, json_dic, floor_list) ==
    LET floor == FirstFloor(floor_list, json_dic.floor_id)
        known == contains_info(builtins, custom, json_dic.item_id)
        item_id == IF ~known.val THEN SentinelId ELSE json_dic.item_id
    IN  IF known.kind = "raise"
        THEN [out |-> known, logged |-> IF floor = None THEN 1 ELSE 0,
              consulted |-> TRUE]
        ELSE [out |-> ItemInit(builtins, custom, item_id, floor,
                               FALSE, FALSE, FALSE, Str(json_dic.flags)),
              logged |-> IF floor = None THEN 1 ELSE 0, consulted |-> TRUE]

\* Item.from_valid_json: the outcome, the number of log_error calls made and
\* whether the metadata store was consulted.
from_valid_json(builtins, custom, json_dic, floor_list) ==
    LET floor == FirstFloor(floor_list, json_dic.floor_id)
        known == contains_info(builtins, custom, json_dic.item_id)
        item_id == IF ~known.val THEN SentinelId ELSE json_dic.item_id
    IN  IF floor = None
        THEN [out |-> Ok(None), logged |-> 1, consulted |-> FALSE]
        ELSE IF known.kind = "raise"
        THEN [out |-> known, logged |-> 0, consulted |-> TRUE]
        ELSE [out |-> ItemInit(builtins, custom, item_id, floor,
                               FALSE, FALSE, FALSE, Str(json_dic.flags)),
              logged |-> 0, consulted |-> TRUE]

IsItem(v) == v.t = "Item"

\* A variant of __eq__ that also compares the floors.
item_eq_with_floor(self, other) ==
    IF ~IsItem(other) THEN FALSE
    ELSE self.item_id = other.item_id /\ self.floor = other.floor

\* Item.__eq__
item_eq(self, other) ==
    IF ~IsItem(other) THEN FALSE
    ELSE other # None /\ self.item_id = other.item_id

\* Item.__ne__
item_ne(self, other) ==
    IF ~IsItem(other) THEN TRUE
    ELSE other = None \/ self.item_id # other.item_id

\* hash() of a Python string: a fixed function of its characters (here a
\* polynomial hash over the character codes, reduced to 8 bits).
Ord(c) ==
    CASE c = "m" -> 109 [] c = "1" -> 49 [] c = "2" -> 50 [] c = "9" -> 57
      [] c = "A" -> 65  [] c = "B" -> 66 [] c = "N" -> 78 [] c = "E" -> 69
      [] c = "W" -> 87  [] OTHER -> 63

RECURSIVE HashStr(_)
HashStr(s) ==
    IF s = <<>> THEN 0
    ELSE (31 * HashStr(SubSeq(s, 1, Len(s) - 1)) + Ord(s[Len(s)])) % 256

\* Item.__hash__
item_hash(self) == HashStr(self.item_id)

\* A variant that leaves the trailing separator in place.
KeepTrailingSeparator(desc) == desc

\* if desc.endswith(", "): desc = desc[:-2]
StripTrailingSeparator(desc) ==
    IF EndsWith(desc, <<",", " ">>) THEN SubSeq(desc, 1, Len(desc) - 2) ELSE desc

\* if len(desc) > 0: desc = ": " + desc
AddPrefix(desc) ==
    IF Len(desc) > 0 THEN <<":", " ">> \o desc ELSE desc

\* Item.generate_item_description: each `if x: desc += ...` appends to desc.
generate_item_description(self) ==
    LET text        == InfoGetAttribute(self.info, "text")
        dmg         == InfoGetAttribute(self.info, "dmg")
        dmg_x       == InfoGetAttribute(self.info, "dmg_x")
        delay       == InfoGetAttribute(self.info, "delay")
        delay_x     == InfoGetAttribute(self.info, "delay_x")
        health      == InfoGetAttribute(self.info, "health")
        speed       == InfoGetAttribute(self.info, "speed")
        shot_speed  == InfoGetAttribute(self.info, "shot_speed")
        tear_range  == InfoGetAttribute(self.info, "range")
        height      == InfoGetAttribute(self.info, "height")
        tears       == InfoGetAttribute(self.info, "tears")
        soul_hearts == InfoGetAttribute(self.info, "soul_hearts")
        sin_hearts  == InfoGetAttribute(self.info, "sin_hearts")
        d0  == <<>>
        d1  == d0 \o (IF Truthy(dmg)
                      THEN dmg.s \o <<" ","d","m","g",","," ">>
                      ELSE <<>>)
        d2  == d1 \o (IF Truthy(dmg_x)
                      THEN <<"x">> \o dmg_x.s \o <<" ","d","m","g",","," ">>
                      ELSE <<>>)
        d3  == d2 \o (IF Truthy(tears)
                      THEN tears.s \o <<" ","t","e","a","r","s",","," ">>
                      ELSE <<>>)
        d4  == d3 \o (IF Truthy(delay)
                      THEN delay.s \o <<" ","t","e","a","r"," ","d","e","l","a","y",","," ">>
                      ELSE <<>>)
        d5  == d4 \o (IF Truthy(delay_x)
                      THEN <<"x">> \o delay_x.s \o <<" ","t","e","a","r"," ","d","e","l","a","y",","," ">>
                      ELSE <<>>)
        d6  == d5 \o (IF Truthy(shot_speed)
                      THEN shot_speed.s \o <<" ","s","h","o","t","s","p","e","e","d",","," ">>
                      ELSE <<>>)
        d7  == d6 \o (IF Truthy(tear_range)
                      THEN tear_range.s \o <<" ","r","a","n","g","e",","," ">>
                      ELSE <<>>)
        d8  == d7 \o (IF Truthy(height)
                      THEN height.s \o <<" ","h","e","i","g","h","t",","," ">>
                      ELSE <<>>)
        d9  == d8 \o (IF Truthy(speed)
                      THEN speed.s \o <<" ","s","p","e","e","d",","," ">>
                      ELSE <<>>)
        d10 == d9 \o (IF Truthy(health)
                      THEN health.s \o <<" ","h","e","a","l","t","h",","," ">>
                      ELSE <<>>)
        d11 == d10 \o (IF Truthy(soul_hearts)
                      THEN soul_hearts.s \o <<" ","s","o","u","l"," ","h","e","a","r","t","s",","," ">>
                      ELSE <<>>)
        d12 == d11 \o (IF Truthy(sin_hearts)
                      THEN sin_hearts.s \o <<" ","s","i","n"," ","h","e","a","r","t","s",","," ">>
                      ELSE <<>>)
        d13 == d12 \o (IF Truthy(text) THEN text.s ELSE <<>>)
    IN  AddPrefix(StripTrailingSeparator(d13))

----------------------------------------------------------------------------
(* The data the operations are exercised on *)

F1 == [t |-> "Floor", floor_id |-> "F1", uid |-> 1]

F2 == [t |-> "Floor", floor_id |-> "F2", uid |-> 2]

\* A second floor object with the floor_id of F1.
F1b == [t |-> "Floor", floor_id |-> "F1", uid |-> 3]

Floors == {F1, F2}

FloorLists == {<<>>, <<F2, F1b, F1>>}

FloorIds == {"F1", "MISSING"}

\* Item.items_info as loaded: "1" a passive item, "2" a spacebar item, and the
\* sentinel entry "NEW".
LoadedItemsInfo ==
    (<<"1">> :> ("name" :> Str(<<"O">>) @@ "tears" :> Str(<<"7">>)
                 @@ "text" :> Str(<<"T">>)))
    @@ (<<"2">> :> ("name" :> Str(<<"D">>) @@ "space" :> Bool(TRUE)))
    @@ (SentinelId :> ("name" :> Str(<<"?">>) @@ "shown" :> Bool(FALSE)))

\* Item.custom_items_info as loaded, before determine_custom_item_names: "A"
\* has no display name, "B" has one, is a spacebar item and has keys that
\* collide with names of the ItemInfo type.
LoadedCustomItemsInfo ==
    (<<"A">> :> ("dmg" :> Str(<<"1">>)))
    @@ (<<"B">> :> ("name" :> Str(<<"b","e","e">>) @@ "space" :> Bool(TRUE)
                    @@ "keys" :> Str(<<"k">>) @@ "__class__" :> Str(<<"c">>)))

ItemIds ==
    {<<>>, <<"m">>, <<"1">>, <<"2">>, <<"9">>, <<"A">>, <<"m", "A">>, <<"m", "B">>}

\* Flag strings of persisted records: every subset of {b, r, s} in several
\* orders, with unrecognized characters and duplicates.
FlagStrs ==
    {<<>>, <<"b">>, <<"r">>, <<"s">>, <<"r","b">>, <<"b","s">>, <<"s","r">>,
     <<"b","r","s">>, <<"s","r","b">>, <<"x","b","x">>, <<"r","r">>}

JsonRecords == [item_id : ItemIds, floor_id : FloorIds, flags : FlagStrs]

\* The cap on the number of log_error calls of a run.
MaxErrors == 1

----------------------------------------------------------------------------
(* State *)

NoArgs == [none |-> TRUE]

\* An uncaught exception ends the run.
Running == ret.out.kind # "raise"

NewHist(obj) ==
    IF IsItem(obj) THEN [born_rerolled |-> obj.was_rerolled, reroll_called |-> FALSE]
    ELSE [born_rerolled |-> FALSE, reroll_called |-> FALSE]

Init ==
    /\ items_info = LoadedItemsInfo
    /\ custom_items_info = LoadedCustomItemsInfo
    /\ item = None
    /\ hist = NewHist(None)
    /\ error_log = 0
    /\ ret = [op |-> "init", args |-> NoArgs, out |-> Ok(None)]

\* item = <call>: the binding is made only when the call returns.
Bind(out) ==
    /\ item' = IF out.kind = "ok" THEN out.val ELSE item
    /\ hist' = IF out.kind = "ok" THEN NewHist(out.val) ELSE hist

\* item = Item(item_id, floor, starting_item, was_rerolled, blind)
Construct(item_id, floor, starting_item, was_rerolled, blind) ==
    /\ Running
    /\ LET out == ItemInit(items_info, custom_items_info, item_id, floor,
                           starting_item, was_rerolled, blind, None)
       IN  /\ Bind(out)
           /\ ret' = [op |-> "Item", args |-> [item_id |-> item_id, flagstr |-> None],
                      out |-> out]
    /\ UNCHANGED <<items_info, custom_items_info, error_log>>

\* item = Item(item_id, floor, flagstr=flagstr)
ConstructFlagstr(item_id, floor, flagstr) ==
    /\ Running
    /\ LET out == ItemInit(items_info, custom_items_info, item_id, floor,
                           FALSE, FALSE, FALSE, Str(flagstr))
       IN  /\ Bind(out)
           /\ ret' = [op |-> "Item",
                      args |-> [item_id |-> item_id, flagstr |-> Str(flagstr)],
                      out |-> out]
    /\ UNCHANGED <<items_info, custom_items_info, error_log>>

\* item = Item.from_valid_json(json_dic, floor_list)
FromValidJson(json_dic, floor_list) ==
    /\ Running
    /\ LET r == from_valid_json(items_info, custom_items_info, json_dic, floor_list)
       IN  /\ error_log + r.logged <= MaxErrors
           /\ error_log' = error_log + r.logged
           /\ Bind(r.out)
           /\ ret' = [op |-> "from_valid_json",
                      args |-> [json_dic |-> json_dic, floor_list |-> floor_list,
                                errors_before |-> error_log],
                      out |-> r.out, consulted |-> r.consulted]
    /\ UNCHANGED <<items_info, custom_items_info>>

\* item.rerolled()
Rerolled ==
    /\ Running
    /\ IsItem(item)
    /\ item' = rerolled(item)
    /\ hist' = [hist EXCEPT !.reroll_called = TRUE]
    /\ ret' = [op |-> "rerolled", args |-> [self |-> item], out |-> Ok(None)]
    /\ UNCHANGED <<items_info, custom_items_info, error_log>>

\* item.flags
Flags ==
    /\ Running
    /\ IsItem(item)
    /\ \E s \in flags(item) :
          ret' = [op |-> "flags", args |-> [self |-> item], out |-> Ok(Str(s))]
    /\ UNCHANGED <<items_info, custom_items_info, item, hist, error_log>>

\* item == other, item != other, hash(item), hash(other)
Compare(other) ==
    /\ Running
    /\ IsItem(item)
    /\ ret' = [op |-> "compare", args |-> [self |-> item, other |-> other],
               out |-> Ok([eq |-> item_eq(item, other),
                           ne |-> item_ne(item, other),
                           hash_self |-> item_hash(item),
                           hash_other |-> IF IsItem(other) THEN item_hash(other)
                                          ELSE -1])]
    /\ UNCHANGED <<items_info, custom_items_info, item, hist, error_log>>

\* Item.contains_info(item_id)
ContainsInfo(item_id) ==
    /\ Running
    /\ LET out == contains_info(items_info, custom_items_info, item_id)
       IN  ret' = [op |-> "contains_info", args |-> [item_id |-> item_id],
                   out |-> IF out.kind = "ok" THEN Ok(Bool(out.val)) ELSE out]
    /\ UNCHANGED <<items_info, custom_items_info, item, hist, error_log>>

\* Item.get_item_info(item_id)
GetItemInfo(item_id) ==
    /\ Running
    /\ ret' = [op |-> "get_item_info", args |-> [item_id |-> item_id],
               out |-> get_item_info(items_info, custom_items_info, item_id)]
    /\ UNCHANGED <<items_info, custom_items_info, item, hist, error_log>>

\* Item.determine_custom_item_names()
DetermineCustomItemNames ==
    /\ Running
    /\ custom_items_info' = determine_custom_item_names(custom_items_info)
    /\ ret' = [op |-> "determine_custom_item_names",
               args |-> [items_before |-> items_info,
                         custom_before |-> custom_items_info,
                         item_before |-> item],
               out |-> Ok(None)]
    /\ UNCHANGED <<items_info, item, hist, error_log>>

\* getattr(item.info, name), i.e. item.info.<name>
GetAttr(name) ==
    /\ Running
    /\ IsItem(item)
    /\ ret' = [op |-> "getattr", args |-> [info |-> item.info, name |-> name],
               out |-> Ok(InfoGetAttribute(item.info, name))]
    /\ UNCHANGED <<items_info, custom_items_info, item, hist, error_log>>

\* item.info[name]
GetItem(name) ==
    /\ Running
    /\ IsItem(item)
    /\ ret' = [op |-> "getitem", args |-> [info |-> item.info, name |-> name],
               out |-> Ok(InfoGetItem(item.info, name))]
    /\ UNCHANGED <<items_info, custom_items_info, item, hist, error_log>>

\* item.generate_item_description()
GenerateItemDescription ==
    /\ Running
    /\ IsItem(item)
    /\ ret' = [op |-> "generate_item_description", args |-> [self |-> item],
               out |-> Ok(Str(generate_item_description(item)))]
    /\ UNCHANGED <<items_info, custom_items_info, item, hist, error_log>>

----------------------------------------------------------------------------
(* The item lifecycle: the three ways an Item comes to exist, and rerolled() *)

Next ==
    \/ \E id \in ItemIds, f \in Floors, s, r, b \in BOOLEAN : Construct(id, f, s, r, b)
    \/ \E id \in ItemIds, f \in Floors, fs \in FlagStrs : ConstructFlagstr(id, f, fs)
    \/ \E j \in JsonRecords, fl \in FloorLists : FromValidJson(j, fl)
    \/ Rerolled

Spec == Init /\ [][Next]_vars

----------------------------------------------------------------------------
(* Flag serialization: encoding an Item's flags *)

NextFlags ==
    \/ \E id \in ItemIds, f \in Floors, s, r, b \in BOOLEAN : Construct(id, f, s, r, b)
    \/ Flags

SpecFlags == Init /\ [][NextFlags]_vars

----------------------------------------------------------------------------
(* The metadata store and the ItemInfo accessor *)

\* Identifiers looked up: those of ItemIds, a modded id whose key only the
\* builtins table has, and the sentinel.
LookupIds == ItemIds \cup {<<"m", "1">>, SentinelId}

\* Field names read from an ItemInfo: keys of records, absent names, the empty
\* string, a reserved word, and names defined on the ItemInfo type.
FieldNames ==
    {"name", "space", "dmg", "nosuch", "", "class",
     "transform_list", "stat_list", "keys", "__class__"}

NextStore ==
    \/ \E id \in ItemIds : Construct(id, F1, FALSE, FALSE, FALSE)
    \/ \E id \in LookupIds : ContainsInfo(id)
    \/ \E id \in LookupIds : GetItemInfo(id)
    \/ DetermineCustomItemNames
    \/ \E name \in FieldNames : GetAttr(name)
    \/ \E name \in FieldNames : GetItem(name)

SpecStore == Init /\ [][NextStore]_vars

----------------------------------------------------------------------------
(* Equality and hashing *)

OtherFlags == {<<FALSE, FALSE, FALSE>>, <<FALSE, TRUE, FALSE>>, <<TRUE, TRUE, TRUE>>}

\* Values an Item is compared with: Items of several ids, floors and flags, and
\* values that are not Items.
Others ==
    {ItemInit(LoadedItemsInfo, LoadedCustomItemsInfo, id, f, fl[1], fl[2], fl[3], None).val :
        id \in {<<"1">>, <<"2">>, <<"m", "A">>}, f \in Floors, fl \in OtherFlags}
    \cup {None, Str(<<"1">>), F1}

NextEq ==
    \/ \E id \in ItemIds, f \in Floors, s, r, b \in BOOLEAN : Construct(id, f, s, r, b)
    \/ \E other \in Others : Compare(other)

SpecEq == Init /\ [][NextEq]_vars

----------------------------------------------------------------------------
(* Description generation, over metadata records of every shape *)

StatFields ==
    {"dmg", "dmg_x", "tears", "delay", "delay_x", "shot_speed", "range",
     "height", "speed", "health", "soul_hearts", "sin_hearts"}

\* A distinct one-character value for each stat field.
StatValue(f) ==
    CASE f = "dmg" -> <<"1">> [] f = "dmg_x" -> <<"2">> [] f = "tears" -> <<"3">>
      [] f = "delay" -> <<"4">> [] f = "delay_x" -> <<"5">>
      [] f = "shot_speed" -> <<"6">> [] f = "range" -> <<"7">>
      [] f = "height" -> <<"8">> [] f = "speed" -> <<"9">>
      [] f = "health" -> <<"a">> [] f = "soul_hearts" -> <<"b">>
      [] f = "sin_hearts" -> <<"c">>

\* The free texts tried: plain, empty, and texts that end with ", ".
Texts == {<<>>, <<"T">>, <<",", " ">>, <<"T", ",", " ">>}

\* A metadata record: the stat fields of P present (dmg as the empty string
\* when e is set and dmg is not in P), the text absent (t = None) or t.
DescRecord(P, e, t) ==
    [f \in P \cup (IF e THEN {"dmg"} ELSE {}) \cup (IF t = None THEN {} ELSE {"text"}) |->
        IF f = "text" THEN t
        ELSE IF f \in P THEN Str(StatValue(f)) ELSE Str(<<>>)]

InitDesc ==
    /\ \E P \in SUBSET StatFields, e \in BOOLEAN, t \in {None} \cup {Str(x) : x \in Texts} :
          items_info = (<<"1">> :> DescRecord(P, e, t)) @@ LoadedItemsInfo
    /\ custom_items_info = LoadedCustomItemsInfo
    /\ item = None
    /\ hist = NewHist(None)
    /\ error_log = 0
    /\ ret = [op |-> "init", args |-> NoArgs, out |-> Ok(None)]

NextDesc ==
    \/ Construct(<<"1">>, F1, FALSE, FALSE, FALSE)
    \/ GenerateItemDescription

SpecDesc == InitDesc /\ [][NextDesc]_vars

----------------------------------------------------------------------------
(* Properties *)

IsSpaceItem(obj) == Truthy(InfoGetAttribute(obj.info, "space"))

\* C1: whatever string Item.flags returned for an Item x (in whatever order
\* the characters were emitted), Item(x.item_id, x.floor, flagstr=that string)
\* has the blind, was_rerolled and starting_item of x; and an Item with the
\* three flags false encodes to the empty string.
C1_FlagsRoundTrip ==
    ret.op = "flags" =>
        LET x == ret.args.self
            y == ItemInit(items_info, custom_items_info, x.item_id, x.floor,
                          FALSE, FALSE, FALSE, ret.out.val)
        IN  /\ y.kind = "ok"
            /\ y.val.blind = x.blind
            /\ y.val.was_rerolled = x.was_rerolled
            /\ y.val.starting_item = x.starting_item
            /\ (~x.blind /\ ~x.was_rerolled /\ ~x.starting_item) => ret.out.val.s = <<>>

\* An Item with the three flags set was encoded as "srb".
C1_Witness ==
    /\ ret.op = "flags"
    /\ ret.args.self.blind /\ ret.args.self.was_rerolled /\ ret.args.self.starting_item
    /\ ret.out.val.s = <<"s", "r", "b">>

\* No floor of the call's floor_list has the record's floor_id.
NoFloorFor(args) ==
    \A i \in 1..Len(args.floor_list) :
        args.floor_list[i].floor_id # args.json_dic.floor_id

\* C3: a from_valid_json call whose record names a floor_id of no floor in
\* known_floors logs exactly one error, returns None (no Item), raises nothing,
\* does not consult the metadata store and leaves both tables unchanged,
\* whatever the record's item_id and flags.
C3_MissingFloorIsLoggedFailure ==
    [][ (ret' # ret /\ ret'.op = "from_valid_json" /\ NoFloorFor(ret'.args)) =>
            /\ ret'.out = Ok(None)
            /\ item' = None
            /\ error_log' = error_log + 1
            /\ ~ret'.consulted
            /\ items_info' = items_info
            /\ custom_items_info' = custom_items_info ]_vars

\* A record with the empty item_id (on which the metadata lookup would raise)
\* and an unknown floor_id was reported and yielded no Item.
C3_Witness ==
    /\ ret.op = "from_valid_json"
    /\ NoFloorFor(ret.args)
    /\ ret.args.floor_list # <<>>
    /\ ret.args.json_dic.item_id = <<>>
    /\ ret.args.json_dic.flags = <<"b", "r", "s">>
    /\ ret.out = Ok(None)
    /\ error_log = 1

\* C4 as stated: was_rerolled is true only if rerolled() was called on the
\* Item, and a spacebar Item never has was_rerolled true.
C4_OnlyRerollSetsWasRerolled ==
    IsItem(item) =>
        /\ item.was_rerolled => hist.reroll_called
        /\ IsSpaceItem(item) => ~item.was_rerolled

\* C4 as amended: was_rerolled is true only if the Item was constructed with
\* it true (the was_rerolled argument, or 'r' in the flag string or in the
\* persisted flags) or rerolled() was called on it and its metadata is not
\* space-exempt.
C4_WasRerolledFromConstructionOrReroll ==
    IsItem(item) =>
        (item.was_rerolled =>
            \/ hist.born_rerolled
            \/ (hist.reroll_called /\ ~IsSpaceItem(item)))

\* rerolled() was called on a spacebar Item reconstructed from a persisted
\* record without 'r', and was_rerolled is still false.
C4_Witness ==
    /\ IsItem(item)
    /\ IsSpaceItem(item)
    /\ item.floor = F1b
    /\ hist.reroll_called
    /\ ~hist.born_rerolled
    /\ ~item.was_rerolled

\* C5: rerolled() on an Item that is not space-exempt leaves was_rerolled true;
\* on a space-exempt Item it changes nothing and raises nothing; item_id,
\* floor, blind, starting_item and info are unchanged in both cases; and a
\* second call changes nothing more.
C5_RerolledEffect ==
    ret.op = "rerolled" =>
        LET x == ret.args.self
        IN  /\ ret.out = Ok(None)
            /\ ~IsSpaceItem(x) => item.was_rerolled
            /\ IsSpaceItem(x) => item.was_rerolled = x.was_rerolled
            /\ item.item_id = x.item_id
            /\ item.floor = x.floor
            /\ item.blind = x.blind
            /\ item.starting_item = x.starting_item
            /\ item.info = x.info
            /\ rerolled(item) = item

\* rerolled() was called on a spacebar Item whose was_rerolled was true.
C5_Witness ==
    /\ ret.op = "rerolled"
    /\ IsSpaceItem(ret.args.self)
    /\ ret.args.self.was_rerolled
    /\ item.was_rerolled

\* C2: for a persisted record whose floor_id is that of some floor in
\* known_floors, from_valid_json raises nothing and returns an Item whose floor
\* is the first floor of known_floors with that id, whose item_id is the
\* record's if the store contains it and "NEW" otherwise, and whose blind /
\* was_rerolled / starting_item are true exactly when 'b' / 'r' / 's' occurs
\* in the record's flags.
C2_ReconstructionNeverRaises ==
    (ret.op = "from_valid_json" /\ ~NoFloorFor(ret.args)) =>
        LET rec == ret.args.json_dic
            fl  == ret.args.floor_list
            obj == ret.out.val
            present == IF rec.item_id # <<>> /\ rec.item_id[1] = "m"
                       THEN SubSeq(rec.item_id, 2, Len(rec.item_id))
                                \in DOMAIN custom_items_info
                       ELSE rec.item_id \in DOMAIN items_info
        IN  /\ ret.out.kind = "ok"
            /\ IsItem(obj)
            /\ \E i \in 1..Len(fl) :
                  /\ fl[i].floor_id = rec.floor_id
                  /\ \A j \in 1..(i - 1) : fl[j].floor_id # rec.floor_id
                  /\ obj.floor = fl[i]
            /\ obj.item_id = IF present THEN rec.item_id ELSE SentinelId
            /\ obj.blind = (\E i \in 1..Len(rec.flags) : rec.flags[i] = "b")
            /\ obj.was_rerolled = (\E i \in 1..Len(rec.flags) : rec.flags[i] = "r")
            /\ obj.starting_item = (\E i \in 1..Len(rec.flags) : rec.flags[i] = "s")

\* C6: contains_info(id) returns a boolean and raises nothing, and it is true
\* exactly when get_item_info(id) succeeds: an id that begins with "m" is
\* looked up only in the custom table under the id without its first
\* character, any other id only in the builtins table under the id itself.
C6_ContainsInfoTotalAndRouted ==
    ret.op = "contains_info" =>
        LET id == ret.args.item_id
        IN  /\ ret.out.kind = "ok"
            /\ ret.out.val.t = "bool"
            /\ ret.out.val.b =
                  (get_item_info(items_info, custom_items_info, id).kind = "ok")
            /\ ret.out.val.b =
                  IF id[1] = "m"
                  THEN SubSeq(id, 2, Len(id)) \in DOMAIN custom_items_info
                  ELSE id \in DOMAIN items_info

C9_EqualityByItemId ==
    ret.op = "compare" =>
        LET a == ret.args.self
            b == ret.args.other
            r == ret.out.val
        IN  /\ b.t = "Item" => (r.eq <=> a.item_id = b.item_id)
            /\ b.t = "Item" /\ r.eq => r.hash_self = r.hash_other
            /\ b.t # "Item" => ~r.eq
            /\ r.ne <=> ~r.eq

\* Two Items of the same item_id with different floors and flags compared equal.
C9_Witness ==
    /\ ret.op = "compare"
    /\ ret.args.other.t = "Item"
    /\ ret.args.other.floor # ret.args.self.floor
    /\ ret.args.other.was_rerolled # ret.args.self.was_rerolled
    /\ ret.args.other.blind # ret.args.self.blind
    /\ ret.out.val.eq
    /\ ret.out.val.hash_self = ret.out.val.hash_other

\* C10: after determine_custom_item_names every custom record has a name; a
\* record that lacked one is named after its key and one that had a name keeps
\* it; no other field, no key of the custom table and nothing of the builtins
\* table changes; running the pass again changes nothing; and an Item
\* constructed before keeps the info it was constructed with.
C10_CustomNamesIdempotent ==
    ret.op = "determine_custom_item_names" =>
        LET before == ret.args.custom_before
            after  == custom_items_info
        IN  /\ DOMAIN after = DOMAIN before
            /\ \A k \in DOMAIN before :
                  /\ "name" \in DOMAIN after[k]
                  /\ "name" \notin DOMAIN before[k] => after[k]["name"] = Str(k)
                  /\ DOMAIN after[k] = DOMAIN before[k] \cup {"name"}
                  /\ \A f \in DOMAIN before[k] : after[k][f] = before[k][f]
            /\ items_info = ret.args.items_before
            /\ determine_custom_item_names(after) = after
            /\ item = ret.args.item_before

\* The pass ran a second time, with an Item of the unnamed custom record "A"
\* constructed before the first run: the store names the record, the Item's
\* info still has no name.
C10_Witness ==
    /\ ret.op = "determine_custom_item_names"
    /\ ret.args.custom_before = custom_items_info
    /\ IsItem(item)
    /\ item.item_id = <<"m", "A">>
    /\ "name" \notin DOMAIN item.info
    /\ custom_items_info[<<"A">>]["name"] = Str(<<"A">>)
    /\ custom_items_info[<<"B">>]["name"] = Str(<<"b", "e", "e">>)

\* The order, prefixes and unit labels of C8.
StatOrder ==
    << [field |-> "dmg",         prefix |-> <<>>,    unit |-> <<"d","m","g">>],
       [field |-> "dmg_x",       prefix |-> <<"x">>, unit |-> <<"d","m","g">>],
       [field |-> "tears",       prefix |-> <<>>,    unit |-> <<"t","e","a","r","s">>],
       [field |-> "delay",       prefix |-> <<>>,
        unit |-> <<"t","e","a","r"," ","d","e","l","a","y">>],
       [field |-> "delay_x",     prefix |-> <<"x">>,
        unit |-> <<"t","e","a","r"," ","d","e","l","a","y">>],
       [field |-> "shot_speed",  prefix |-> <<>>,
        unit |-> <<"s","h","o","t","s","p","e","e","d">>],
       [field |-> "range",       prefix |-> <<>>,    unit |-> <<"r","a","n","g","e">>],
       [field |-> "height",      prefix |-> <<>>,    unit |-> <<"h","e","i","g","h","t">>],
       [field |-> "speed",       prefix |-> <<>>,    unit |-> <<"s","p","e","e","d">>],
       [field |-> "health",      prefix |-> <<>>,    unit |-> <<"h","e","a","l","t","h">>],
       [field |-> "soul_hearts", prefix |-> <<>>,
        unit |-> <<"s","o","u","l"," ","h","e","a","r","t","s">>],
       [field |-> "sin_hearts",  prefix |-> <<>>,
        unit |-> <<"s","i","n"," ","h","e","a","r","t","s">> ] >>

\* A field that is present: a key of the record whose value is not empty.
Present(info, f) == f \in DOMAIN info /\ info[f] # None /\ info[f] # Str(<<>>)

\* The first n stats of StatOrder that are present, each as prefix, value,
\* " ", unit, ", ".
RECURSIVE StatsText(_, _)
StatsText(info, n) ==
    IF n = 0 THEN <<>>
    ELSE StatsText(info, n - 1)
         \o (IF Present(info, StatOrder[n].field)
             THEN StatOrder[n].prefix \o info[StatOrder[n].field].s \o <<" ">>
                  \o StatOrder[n].unit \o <<",", " ">>
             ELSE <<>>)

\* The stats, then the free text with no connector.
Assembled(info) ==
    StatsText(info, Len(StatOrder)) \o (IF Present(info, "text") THEN info["text"].s ELSE <<>>)

\* The assembled text without one trailing ", ".
Content(info) ==
    LET a == Assembled(info)
    IN  IF Len(a) >= 2 /\ a[Len(a) - 1] = "," /\ a[Len(a)] = " "
        THEN [i \in 1..(Len(a) - 2) |-> a[i]]
        ELSE a

AnyFieldPresent(info) ==
    \E f \in {StatOrder[i].field : i \in DOMAIN StatOrder} \cup {"text"} : Present(info, f)

====
